---------------------------- MODULE Spec2Model ----------------------------
(***************************************************************************)
(* The statefulset autoscaler of knative eventing's scheduler              *)
(* (package statefulset): the driver loop Start, the trigger channel       *)
(* written by Autoscale, the mutex of syncAutoscale, the leader flag, the  *)
(* sizing of doautoscale and the compaction of mayCompact / compact.       *)
(***************************************************************************)
EXTENDS Integers, Sequences, FiniteSets, TLC

(***************************************************************************)
(* Bounds of the model.                                                    *)
(***************************************************************************)
\* goroutines running Start
NumDrivers == 2
\* goroutines calling Autoscale
NumCallers == 1
\* the clock stops at MaxTime
MaxTime == 4
\* cfg.RefreshPeriod, in clock ticks
RefreshPeriod == 2
\* cfg.PodCapacity: vreplicas per pod
Capacity == 2
\* the highest pod ordinal a snapshot or a placement may name
MaxOrdinal == 1
\* the largest NumZones / NumNodes of a snapshot
MaxFactor == 2

\* the free capacities a snapshot gives a pod: full, one slot left, empty
FreeLevels == {0, 1, Capacity}
\* the pending vreplicas of a snapshot: none, one, more than a pod holds
PendingLevels == {0, 1, Capacity + 1}
\* the largest replica count the fleet starts with: two HA units
MaxReplicas == 2 * MaxFactor

(***************************************************************************)
(* Program constants.                                                      *)
(***************************************************************************)
\* make(chan struct{}, 1)
TriggerCap == 1
\* time.Minute, in clock ticks
Minute == 1

Drivers == 1 .. NumDrivers
Callers == 1 .. NumCallers
Ordinals == 0 .. MaxOrdinal

\* scheduler.SchedulerPolicyType: MAXFILLUP, or the policy-based scheduler
MAXFILLUP == "MAXFILLUP"
POLICY_BASED == "POLICY_BASED"
\* the policy names doautoscale looks for
AvailabilityZonePriority == "AvailabilityZonePriority"
AvailabilityNodePriority == "AvailabilityNodePriority"
EvenPodSpread == "EvenPodSpread"
\* a nil *SchedulerPolicy
NilPolicy == [nil |-> TRUE]
\* no lock holder, no pass
NoOne == 0

(***************************************************************************)
(* The snapshots the state accessor may return.  FreeCap covers the pods   *)
(* 0 .. LastOrdinal.                                                       *)
(***************************************************************************)
SchedPolicies ==
  {NilPolicy} \cup
  [Predicates : SUBSET {EvenPodSpread},
   Priorities : SUBSET {AvailabilityZonePriority, AvailabilityNodePriority}]

RECURSIVE SumSeq(_)
SumSeq(q) == IF q = << >> THEN 0 ELSE Head(q) + SumSeq(Tail(q))

\* the zone and node counts a policy makes relevant, an empty cluster (0)
\* included; 1 where no priority reads them
ZoneCounts(p) ==
  IF p # NilPolicy /\ AvailabilityZonePriority \in p.Priorities
  THEN 0 .. MaxFactor ELSE {1}
NodeCounts(p) ==
  IF p # NilPolicy /\ AvailabilityNodePriority \in p.Priorities
  THEN 0 .. MaxFactor ELSE {1}

\* the FreeCap of the pods 0 .. last: every filling up to MaxOrdinal, and an
\* even filling of the fleet one pod longer
FreeCaps(last) ==
  IF last <= MaxOrdinal THEN [1 .. last + 1 -> FreeLevels]
  ELSE { [i \in 1 .. last + 1 |-> v] : v \in FreeLevels }

\* what a snapshot holds besides the fleet's replica count and pods
BaseSnapshots ==
  UNION { UNION { UNION {
    { [LastOrdinal |-> last,
       FreeCap |-> fc,
       NumZones |-> z,
       NumNodes |-> n,
       Pending |-> pend,
       Expected |-> (last + 1) * Capacity - SumSeq(fc) + pend,
       SchedulerPolicy |-> kind,
       SchedPolicy |-> pol] :
        fc \in FreeCaps(last),
        pend \in PendingLevels,
        z \in ZoneCounts(pol), n \in NodeCounts(pol) } :
      pol \in SchedPolicies } :
      kind \in {MAXFILLUP, POLICY_BASED} } :
      last \in -1 .. MaxOrdinal + 1 }

\* the snapshot of a fleet of reps replicas, all of them schedulable
Snapshot(base, reps) ==
  [Replicas |-> reps, SchedulablePods |-> 0 .. (reps - 1)] @@ base

(***************************************************************************)
(* The methods of st.State that the autoscaler calls.                      *)
(***************************************************************************)
\* State.Free: the free capacity of a pod; a pod past FreeCap is empty
Free(s, ordinal) ==
  IF ordinal + 1 \in DOMAIN s.FreeCap THEN s.FreeCap[ordinal + 1] ELSE Capacity

RECURSIVE SumFree(_, _)
SumFree(s, pods) ==
  IF pods = {} THEN 0
  ELSE LET o == CHOOSE x \in pods : TRUE
       IN  Free(s, o) + SumFree(s, pods \ {o})

\* State.FreeCapacity: the free capacity of the schedulable pods
FreeCapacity(s) == SumFree(s, s.SchedulablePods)

\* State.TotalPending
TotalPending(s) == s.Pending

\* State.TotalExpectedVReplicas
TotalExpectedVReplicas(s) == s.Expected

(***************************************************************************)
(* Sizing: the arithmetic of doautoscale.                                  *)
(***************************************************************************)
\* int32(math.Ceil(float64(a) / float64(b))), b > 0
CeilDiv(a, b) == IF a % b = 0 THEN a \div b ELSE (a \div b) + 1

\* the range of int32, the type of scaleUpFactor, newreplicas and minNumPods
MaxInt32 == 2147483647
MinInt32 == (-MaxInt32) - 1

\* a + b in int32, wrapping around
Add32(a, b) ==
  IF a > 0 /\ b > MaxInt32 - a THEN (a + MinInt32) + (b + MinInt32)
  ELSE IF a < 0 /\ b < MinInt32 - a THEN (a - MinInt32) + (b - MinInt32)
  ELSE a + b

\* int32(NaN): the language leaves the result to the implementation; the
\* conversion instruction gives the least int32 on amd64, 0 on arm64 and the
\* greatest int32 on riscv64
NaNOutcomes == {MinInt32, 0, MaxInt32}

\* contains(preds, priors, name)
contains(preds, priors, name) == name \in preds \/ name \in priors

RECURSIVE minNonZeroFrom(_, _)
minNonZeroFrom(min, slice) ==
  IF slice = << >> THEN min
  ELSE LET v == Head(slice)
       IN  minNonZeroFrom(IF v < min /\ v > 0 THEN v ELSE min, Tail(slice))

\* autoscaler.minNonZeroInt
minNonZeroInt(slice) == minNonZeroFrom(Capacity, slice)

\* the scaleUpFactor of doautoscale: the node count overwrites the zone count
ScaleUpFactor(s) ==
  LET zoned == IF s.SchedPolicy # NilPolicy
                    /\ contains({}, s.SchedPolicy.Priorities, AvailabilityZonePriority)
               THEN s.NumZones ELSE 1
  IN  IF s.SchedPolicy # NilPolicy
           /\ contains({}, s.SchedPolicy.Priorities, AvailabilityNodePriority)
      THEN s.NumNodes ELSE zoned

\* the EvenPodSpread predicate ignored: every new pod taken to offer Capacity
MinNumPods_IgnoresSpread(s) == CeilDiv(TotalPending(s), Capacity)

\* minNumPods: the pods needed for the pending vreplicas
MinNumPods(s) ==
  IF s.SchedPolicy # NilPolicy
       /\ contains(s.SchedPolicy.Predicates, {}, EvenPodSpread)
       /\ Len(s.FreeCap) > 0
  THEN CeilDiv(TotalPending(s), minNonZeroInt(s.FreeCap))
  ELSE CeilDiv(TotalPending(s), Capacity)

\* the floor left out
LastOrdinalFloor_None(s, n) == n

\* the last-ordinal floor of the policy-based branch
LastOrdinalFloor(s, n) ==
  IF n <= s.LastOrdinal THEN s.LastOrdinal + ScaleUpFactor(s) ELSE n

\* whether the sizing divides by a scaleUpFactor of 0: minNumPods / 0 is
\* +Inf, +Inf * 0 is NaN
DividesByZero(s) ==
  /\ s.SchedulerPolicy # MAXFILLUP
  /\ TotalPending(s) > 0
  /\ ScaleUpFactor(s) = 0

\* what the conversion of the rounded pod count to int32 may give
ConversionOutcomes(s) == IF DividesByZero(s) THEN NaNOutcomes ELSE {0}

\* int32(math.Ceil(minNumPods / scaleUpFactor) * scaleUpFactor); nan is what
\* the conversion gives for NaN
RoundedToFactor(s, nan) ==
  IF ScaleUpFactor(s) = 0 THEN nan
  ELSE CeilDiv(MinNumPods(s), ScaleUpFactor(s)) * ScaleUpFactor(s)

\* the rounding to the HA unit left out
IdealReplicas_Unrounded(s, nan) ==
  IF s.SchedulerPolicy = MAXFILLUP
  THEN CeilDiv(TotalExpectedVReplicas(s), Capacity)
  ELSE LastOrdinalFloor(s, IF TotalPending(s) > 0
                           THEN s.LastOrdinal + 1 + MinNumPods(s)
                           ELSE s.LastOrdinal + 1)

\* newreplicas before the scale-down gate
IdealReplicas(s, nan) ==
  IF s.SchedulerPolicy = MAXFILLUP
  THEN CeilDiv(TotalExpectedVReplicas(s), Capacity)
  ELSE LET pending == TotalPending(s)
           grown == IF pending > 0
                    THEN Add32(s.LastOrdinal + 1, RoundedToFactor(s, nan))
                    ELSE s.LastOrdinal + 1
       IN  LastOrdinalFloor(s, grown)

\* the gate left out: the sizing result is written on every wake
ScaleDownGate_Ungated(newreplicas, attemptScaleDown, current) == newreplicas

\* "Only scale down if permitted"
ScaleDownGate(newreplicas, attemptScaleDown, current) ==
  IF ~attemptScaleDown /\ newreplicas < current THEN current ELSE newreplicas

\* the final newreplicas of a pass
NewReplicas(s, nan, attemptScaleDown, current) ==
  ScaleDownGate(IdealReplicas(s, nan), attemptScaleDown, current)


(***************************************************************************)
(* Compaction: the decisions of mayCompact and the eviction pass of        *)
(* compact.                                                                *)
(***************************************************************************)
\* the grace period left out
GraceElapsed_Always(last, t) == TRUE

\* the grace period of mayCompact: not before lastCompactAttempt + refreshPeriod
GraceElapsed(last, t) == ~(t < last + RefreshPeriod)

\* "when there is only one pod there is nothing to move or number of pods is just enough"
HasHeadroom(s, f) ==
  ~(s.LastOrdinal < 1 \/ Cardinality(s.SchedulablePods) <= f)

\* the ordinals the loop of the policy branch visits: i < f and LastOrdinal - i >= 0
WindowPods(s, f) == { s.LastOrdinal - i : i \in { k \in 0 .. (f - 1) : s.LastOrdinal - k >= 0 } }

\* the last pod's own free capacity counted as room below it
MaxFillupFits_CountsLast(s) ==
  FreeCapacity(s) >= Capacity - Free(s, s.LastOrdinal)

\* MAXFILLUP: the last pod's vreplicas fit in the pods below it
MaxFillupFits(s) ==
  LET freeCapacity == FreeCapacity(s) - Free(s, s.LastOrdinal)
      usedInLastPod == Capacity - Free(s, s.LastOrdinal)
  IN  freeCapacity >= usedInLastPod

\* room for the window's vreplicas required with one slot to spare
PolicyFits_Strict(s, f) ==
  LET freeCapacity == FreeCapacity(s) - SumFree(s, WindowPods(s, f))
      usedInLastXPods == Capacity * f - SumFree(s, WindowPods(s, f))
  IN  freeCapacity > usedInLastXPods /\ s.Replicas - f >= f

\* the test that enough pods remain for HA scaling left out
PolicyFits_AnyRemainder(s, f) ==
  LET freeCapacity == FreeCapacity(s) - SumFree(s, WindowPods(s, f))
      usedInLastXPods == Capacity * f - SumFree(s, WindowPods(s, f))
  IN  freeCapacity >= usedInLastXPods

\* policy-based: the last f pods' vreplicas fit in the remaining pods, and
\* enough pods remain for HA scaling
PolicyFits(s, f) ==
  LET freeCapacity == FreeCapacity(s) - SumFree(s, WindowPods(s, f))
      usedInLastXPods == Capacity * f - SumFree(s, WindowPods(s, f))
  IN  freeCapacity >= usedInLastXPods /\ s.Replicas - f >= f

\* whether mayCompact records lastCompactAttempt and calls compact
CompactStarts(s, f, last, t) ==
  /\ GraceElapsed(last, t)
  /\ HasHeadroom(s, f)
  /\ IF s.SchedulerPolicy = MAXFILLUP THEN MaxFillupFits(s)
     ELSE s.SchedPolicy # NilPolicy /\ PolicyFits(s, f)

\* the test of compact's inner loop: ordinal == s.LastOrdinal - j for a j < scaleUpFactor
Evictable(s, f, ordinal) == \E j \in 0 .. (f - 1) : ordinal = s.LastOrdinal - j

\* the placements of one vpod, from the last to the first
RECURSIVE EvictionsOfVPod(_, _, _, _, _)
EvictionsOfVPod(s, f, v, placements, i) ==
  IF i < 1 THEN << >>
  ELSE (IF Evictable(s, f, placements[i])
        THEN << [vpod |-> v, ordinal |-> placements[i]] >> ELSE << >>)
       \o EvictionsOfVPod(s, f, v, placements, i - 1)

\* the evictor calls of compact when none fails, in the order it makes them
RECURSIVE EvictionsFrom(_, _, _, _)
EvictionsFrom(s, f, vpods, v) ==
  IF v > Len(vpods) THEN << >>
  ELSE EvictionsOfVPod(s, f, v, vpods[v], Len(vpods[v]))
       \o EvictionsFrom(s, f, vpods, v + 1)

EvictionPlan(s, f, vpods) == EvictionsFrom(s, f, vpods, 1)

\* compact going on after an evictor error
EvictorCalls_IgnoresErrors(s, f, vpods, listErr, failAt) ==
  IF listErr THEN << >> ELSE EvictionPlan(s, f, vpods)

\* the evictor calls compact makes when call number failAt returns an error
\* (0: none does) or the vpod lister fails
EvictorCalls(s, f, vpods, listErr, failAt) ==
  IF listErr THEN << >>
  ELSE LET plan == EvictionPlan(s, f, vpods)
       IN  IF failAt = 0 THEN plan ELSE SubSeq(plan, 1, failAt)

\* what the vpod lister may return: each vpod's placements, by pod ordinal
PlacementLists ==
  {<< >>} \cup { <<a>> : a \in Ordinals }
          \cup { q \in { <<a, b>> : a \in Ordinals, b \in Ordinals } : q[1] # q[2] }
\* no vpod, one, or two
VPodLists ==
  {<< >>} \cup { <<p>> : p \in PlacementLists }
          \cup { <<p, q>> : p \in PlacementLists, q \in PlacementLists }

(***************************************************************************)
(* The state of the program.                                               *)
(***************************************************************************)
VARIABLES
  isLeader,            \* a.isLeader
  trigger,             \* the signals buffered in a.trigger
  sendq,               \* the Autoscale callers parked on a.trigger, in order
  lock,                \* the driver holding a.lock, or NoOne
  lastCompactAttempt,  \* a.lastCompactAttempt
  now,                 \* time.Now()
  ctxDone,             \* ctx.Done() is closed
  replicas,            \* the statefulset's spec.replicas
  pc,                  \* each driver's position in Start / syncAutoscale
  attemptScaleDown,    \* Start's attemptScaleDown, per driver
  timer,               \* the ticks left until the time.After of a waiting driver fires
  waitSince,           \* when a waiting driver called time.After
  pass,                \* the doautoscale invocation of each driver
  request,             \* the *http.Request handed to Handler.ServeHTTP
  writer,              \* the status codes written to the http.ResponseWriter
  serve                \* the position and the locals of ServeHTTP / receive / send

\* the state of the autoscaler
autoscaler == << isLeader, trigger, sendq, lock, lastCompactAttempt, now, ctxDone,
                 replicas, pc, attemptScaleDown, timer, waitSince, pass >>

\* the state of the ingress handler
ingress == << request, writer, serve >>

vars == << autoscaler, ingress >>

\* no doautoscale invocation
NoPass == [none |-> TRUE]
\* no snapshot read
NoState == [nostate |-> TRUE]
\* UpdateScale not called
NoWrite == -1

(***************************************************************************)
(* The leader callbacks.                                                   *)
(***************************************************************************)
\* Promote: has is b.Has(ephemeralLeaderElectionObject)
Promote(has) ==
  /\ isLeader' = IF has THEN TRUE ELSE isLeader
  /\ UNCHANGED << ingress, trigger, sendq, lock, lastCompactAttempt, now, ctxDone,
                  replicas, pc, attemptScaleDown, timer, waitSince, pass >>

\* Demote
Demote(has) ==
  /\ isLeader' = IF has THEN FALSE ELSE isLeader
  /\ UNCHANGED << ingress, trigger, sendq, lock, lastCompactAttempt, now, ctxDone,
                  replicas, pc, attemptScaleDown, timer, waitSince, pass >>

(***************************************************************************)
(* Start: the select.  A driver at "loop" is about to evaluate the select; *)
(* it takes a case that is ready, at random when several are, and waits    *)
(* ("select") when none is.  A waiting driver is woken by the first case   *)
(* that becomes ready: the close of ctx.Done, the timer, or a send on the  *)
(* trigger, which is handed to it directly.                                *)
(***************************************************************************)
\* the drivers waiting in their select
Waiting == { d \in Drivers : pc[d] = "select" }

\* the select has no case the trigger is ready for
TriggerReady_Never == FALSE

\* case <-a.trigger is ready: a signal is buffered
TriggerReady == trigger > 0

\* case <-ctx.Done() is ready
DoneReady == ctxDone

\* the timer of a wait fires at once
TimerFires_AtOnce(left) == TRUE

\* the timer of a waiting driver fires in this tick: refreshPeriod has passed
TimerFires(left) == left = 1

\* the context of Start is cancelled: the waiting drivers wake and return
Cancel ==
  /\ ~ctxDone
  /\ ctxDone' = TRUE
  /\ pc' = [d \in Drivers |-> IF d \in Waiting THEN "done" ELSE pc[d]]
  /\ timer' = [d \in Drivers |-> 0]
  /\ waitSince' = [d \in Drivers |-> 0]
  /\ UNCHANGED << ingress, isLeader, trigger, sendq, lock, lastCompactAttempt, now,
                  replicas, attemptScaleDown, pass >>

\* the clock advances; a waiting driver whose timer fires wakes with
\* attemptScaleDown = true
Tick ==
  /\ now < MaxTime
  /\ now' = now + 1
  /\ LET woken == { d \in Waiting : TimerFires(timer[d]) }
     IN  /\ pc' = [d \in Drivers |-> IF d \in woken THEN "lock" ELSE pc[d]]
         /\ attemptScaleDown' =
              [d \in Drivers |-> IF d \in woken THEN TRUE ELSE attemptScaleDown[d]]
         /\ timer' = [d \in Drivers |->
                        IF d \in Waiting \ woken THEN timer[d] - 1 ELSE 0]
         /\ waitSince' = [d \in Drivers |->
                            IF d \in Waiting \ woken THEN waitSince[d] ELSE 0]
  /\ UNCHANGED << ingress, isLeader, trigger, sendq, lock, lastCompactAttempt, ctxDone,
                  replicas, pass >>

\* whether c is parked in its send
Parked(c) == \E i \in DOMAIN sendq : sendq[i] = c

\* whether the send of Autoscale completes at once: the buffer has room
SendCompletes == trigger < TriggerCap

\* Autoscale: a.trigger <- struct{}{}.  The signal is handed to a waiting
\* driver, which wakes with attemptScaleDown = false; with no driver waiting
\* it is buffered, and the caller parks when the buffer is full
Autoscale(c) ==
  /\ ~Parked(c)
  /\ IF Waiting # {}
     THEN /\ \E d \in Waiting :
               /\ pc' = [pc EXCEPT ![d] = "lock"]
               /\ attemptScaleDown' = [attemptScaleDown EXCEPT ![d] = FALSE]
               /\ timer' = [timer EXCEPT ![d] = 0]
               /\ waitSince' = [waitSince EXCEPT ![d] = 0]
          /\ UNCHANGED << trigger, sendq >>
     ELSE /\ IF SendCompletes
             THEN trigger' = trigger + 1 /\ sendq' = sendq
             ELSE trigger' = trigger /\ sendq' = Append(sendq, c)
          /\ UNCHANGED << pc, attemptScaleDown, timer, waitSince >>
  /\ UNCHANGED << ingress, isLeader, lock, lastCompactAttempt, now, ctxDone,
                  replicas, pass >>

\* case <-ctx.Done(): return
SelectDone(d) ==
  /\ pc[d] = "loop"
  /\ DoneReady
  /\ pc' = [pc EXCEPT ![d] = "done"]
  /\ UNCHANGED << ingress, isLeader, trigger, sendq, lock, lastCompactAttempt, now,
                  ctxDone, replicas, attemptScaleDown, timer, waitSince, pass >>

\* case <-a.trigger: attemptScaleDown = false; the receive takes the buffered
\* signal and the first parked sender, if any, refills the buffer
SelectTrigger(d) ==
  /\ pc[d] = "loop"
  /\ TriggerReady
  /\ IF sendq # << >>
     THEN trigger' = trigger /\ sendq' = Tail(sendq)
     ELSE trigger' = trigger - 1 /\ sendq' = sendq
  /\ attemptScaleDown' = [attemptScaleDown EXCEPT ![d] = FALSE]
  /\ pc' = [pc EXCEPT ![d] = "lock"]
  /\ UNCHANGED << ingress, isLeader, lock, lastCompactAttempt, now, ctxDone,
                  replicas, timer, waitSince, pass >>

\* no case is ready: the driver waits, with the timer of
\* time.After(a.refreshPeriod) running
SelectWait(d) ==
  /\ pc[d] = "loop"
  /\ ~DoneReady
  /\ ~TriggerReady
  /\ pc' = [pc EXCEPT ![d] = "select"]
  /\ timer' = [timer EXCEPT ![d] = RefreshPeriod]
  /\ waitSince' = [waitSince EXCEPT ![d] = now]
  /\ UNCHANGED << ingress, isLeader, trigger, sendq, lock, lastCompactAttempt, now,
                  ctxDone, replicas, attemptScaleDown, pass >>

(***************************************************************************)
(* syncAutoscale: the mutex and the poll of doautoscale.                   *)
(***************************************************************************)
\* syncAutoscale without the mutex
LockFree_NoMutex == TRUE

\* a.lock.Lock() returns only when the mutex is free
LockFree == lock = NoOne

\* a.lock.Lock(), then the poll's first call of doautoscale
Lock(d) ==
  /\ pc[d] = "lock"
  /\ LockFree
  /\ lock' = d
  /\ pc' = [pc EXCEPT ![d] = "enter"]
  /\ UNCHANGED << ingress, isLeader, trigger, sendq, lastCompactAttempt, now, ctxDone,
                  replicas, attemptScaleDown, timer, waitSince, pass >>

\* the leader check left out
GateOpen_Always(leader) == TRUE

\* the leader gate at the entry of doautoscale
GateOpen(leader) == leader

\* the locals of a doautoscale invocation that has made the calls in calls
PassOf(leader, st, nan, scale, calls, err) ==
  [leader |-> leader, state |-> st, nan |-> nan, scale |-> scale, calls |-> calls,
   newreplicas |-> NoWrite, wrote |-> NoWrite, compacted |-> FALSE,
   evicted |-> << >>, listErr |-> FALSE, failAt |-> 0, acted |-> FALSE,
   err |-> err]

\* doautoscale called while not leader: it returns nil at once
EnterNotLeader(d) ==
  /\ pc[d] = "enter"
  /\ ~GateOpen(isLeader)
  /\ pass' = [pass EXCEPT ![d] = PassOf(isLeader, NoState, 0, NoWrite, {}, FALSE)]
  /\ pc' = [pc EXCEPT ![d] = "returned"]
  /\ UNCHANGED << ingress, isLeader, trigger, sendq, lock, lastCompactAttempt, now,
                  ctxDone, replicas, attemptScaleDown, timer, waitSince >>

\* doautoscale as leader, when stateAccessor.State fails, or GetScale does
\* (scaleErr): the error is returned
EnterFails(d, scaleErr) ==
  /\ pc[d] = "enter"
  /\ GateOpen(isLeader)
  /\ pass' = [pass EXCEPT ![d] =
       PassOf(isLeader, NoState, 0, NoWrite,
              IF scaleErr THEN {"State", "GetScale"} ELSE {"State"}, TRUE)]
  /\ pc' = [pc EXCEPT ![d] = "returned"]
  /\ UNCHANGED << ingress, isLeader, trigger, sendq, lock, lastCompactAttempt, now,
                  ctxDone, replicas, attemptScaleDown, timer, waitSince >>

\* doautoscale as leader, up to GetScale: State returns the snapshot s and
\* GetScale the fleet's replica count; nan is what this build's int32(NaN) gives
Enter(d, s, nan) ==
  /\ pc[d] = "enter"
  /\ GateOpen(isLeader)
  /\ pass' = [pass EXCEPT ![d] =
       PassOf(isLeader, s, nan, replicas, {"State", "GetScale"}, FALSE)]
  /\ pc' = [pc EXCEPT ![d] = "act"]
  /\ UNCHANGED << ingress, isLeader, trigger, sendq, lock, lastCompactAttempt, now,
                  ctxDone, replicas, attemptScaleDown, timer, waitSince >>

\* the final newreplicas of the invocation of driver d, once it holds a snapshot
PassReplicas(d) ==
  NewReplicas(pass[d].state, pass[d].nan, attemptScaleDown[d], pass[d].scale)

\* doautoscale from the sizing on, when the count changes: UpdateScale, which
\* fails when updErr
ActUpdate(d, updErr) ==
  /\ pc[d] = "act"
  /\ PassReplicas(d) # pass[d].scale
  /\ pass' = [pass EXCEPT ![d] =
       [pass[d] EXCEPT !.newreplicas = PassReplicas(d),
                       !.wrote = PassReplicas(d),
                       !.calls = @ \cup {"UpdateScale"},
                       !.acted = TRUE,
                       !.err = updErr]]
  /\ replicas' = IF updErr THEN replicas ELSE PassReplicas(d)
  /\ pc' = [pc EXCEPT ![d] = "returned"]
  /\ UNCHANGED << ingress, isLeader, trigger, sendq, lock, lastCompactAttempt, now,
                  ctxDone, attemptScaleDown, timer, waitSince >>

\* mayCompact called on every wake that leaves the count as it is
Compacts_AnyWake(d) ==
  /\ PassReplicas(d) = pass[d].scale
  /\ CompactStarts(pass[d].state, ScaleUpFactor(pass[d].state), lastCompactAttempt, now)

\* whether doautoscale reaches mayCompact and mayCompact reaches compact
Compacts(d) ==
  /\ PassReplicas(d) = pass[d].scale
  /\ attemptScaleDown[d]
  /\ CompactStarts(pass[d].state, ScaleUpFactor(pass[d].state), lastCompactAttempt, now)

\* doautoscale from the sizing on, when the count stays, on a scale-down wake
\* that may compact: lastCompactAttempt is recorded and compact runs.  vpods,
\* listErr: what the vpod lister returns; failAt: the evictor call that fails
\* (0: none)
ActCompact(d, vpods, listErr, failAt) ==
  /\ pc[d] = "act"
  /\ Compacts(d)
  /\ LET s == pass[d].state
         f == ScaleUpFactor(s)
         calls == EvictorCalls(s, f, vpods, listErr, failAt)
     IN  /\ pass' = [pass EXCEPT ![d] =
              [pass[d] EXCEPT !.newreplicas = PassReplicas(d),
                              !.compacted = TRUE,
                              !.calls = @ \cup {"VPodLister"} \cup
                                (IF calls # << >> THEN {"Evictor"} ELSE {}),
                              !.evicted = calls,
                              !.listErr = listErr,
                              !.failAt = failAt,
                              !.acted = TRUE]]
  /\ lastCompactAttempt' = now
  /\ pc' = [pc EXCEPT ![d] = "returned"]
  /\ UNCHANGED << ingress, isLeader, trigger, sendq, lock, now, ctxDone, replicas,
                  attemptScaleDown, timer, waitSince >>

\* doautoscale from the sizing on, when the count stays and nothing is
\* compacted: a trigger wake, or mayCompact returns early
ActNothing(d) ==
  /\ pc[d] = "act"
  /\ PassReplicas(d) = pass[d].scale
  /\ ~Compacts(d)
  /\ pass' = [pass EXCEPT ![d] =
       [pass[d] EXCEPT !.newreplicas = PassReplicas(d), !.acted = TRUE]]
  /\ pc' = [pc EXCEPT ![d] = "returned"]
  /\ UNCHANGED << ingress, isLeader, trigger, sendq, lock, lastCompactAttempt, now,
                  ctxDone, replicas, attemptScaleDown, timer, waitSince >>

\* the poll calls doautoscale again after an error
PollRetry(d) ==
  /\ pc[d] = "returned"
  /\ pass[d].err
  /\ pass' = [pass EXCEPT ![d] = NoPass]
  /\ pc' = [pc EXCEPT ![d] = "enter"]
  /\ UNCHANGED << ingress, isLeader, trigger, sendq, lock, lastCompactAttempt, now,
                  ctxDone, replicas, attemptScaleDown, timer, waitSince >>

\* the poll ends (doautoscale succeeded, or the poll timed out), the deferred
\* Unlock runs and Start goes back to its select
SyncReturn(d) ==
  /\ pc[d] = "returned"
  /\ lock' = NoOne
  /\ pass' = [pass EXCEPT ![d] = NoPass]
  /\ pc' = [pc EXCEPT ![d] = "loop"]
  /\ UNCHANGED << ingress, isLeader, trigger, sendq, lastCompactAttempt, now, ctxDone,
                  replicas, attemptScaleDown, timer, waitSince >>

(***************************************************************************)
(* The ingress handler: Handler.ServeHTTP, receive and send, one request   *)
(* at a time.  Strings are sequences of characters.                        *)
(***************************************************************************)
\* the longest RequestURI
MaxURILen == 5

StatusOK == 200
StatusAccepted == 202
StatusBadRequest == 400
StatusNotFound == 404
StatusMethodNotAllowed == 405
StatusInternalServerError == 500
StatusServiceUnavailable == 503

\* "noDuration signals that the dispatch step hasn't started"
noDuration == -1

MethodOptions == "OPTIONS"
MethodPost == "POST"
MethodGet == "GET"
Methods == {MethodOptions, MethodPost, MethodGet}

\* the characters of a RequestURI: the separator and a name character
Slash == "/"
URIChars == {Slash, "a"}

\* the request URIs: the strings of 1 .. MaxURILen characters
URIs == UNION { [1 .. n -> URIChars] : n \in 1 .. MaxURILen }

\* the event carries no usable TTL extension: broker.GetTTL returns an error
NoTTL == -2
TTLs == {NoTTL, 0, 1}

\* the bodies: one that binding.ToEvent cannot decode, and events that
\* Validate accepts or not, with their TTL
Bodies ==
  {[decodes |-> FALSE, valid |-> FALSE, ttl |-> NoTTL]}
    \cup [decodes : {TRUE}, valid : BOOLEAN, ttl : TTLs]

\* the requests ServeHTTP is called with
Requests == [Method : Methods, RequestURI : URIs, body : Bodies]

\* no request is being served
NoRequest == [none |-> TRUE]

\* a nil *duckv1.Addressable
NilAddress == "nil"

\* strings.TrimSuffix(s, "/")
TrimSuffix(s) ==
  IF Len(s) > 0 /\ s[Len(s)] = Slash THEN SubSeq(s, 1, Len(s) - 1) ELSE s

\* strings.Split(s, "/")
RECURSIVE Split(_)
Split(s) ==
  IF \A i \in DOMAIN s : s[i] # Slash THEN << s >>
  ELSE LET i == CHOOSE k \in DOMAIN s :
                  s[k] = Slash /\ \A j \in 1 .. k - 1 : s[j] # Slash
       IN  << SubSeq(s, 1, i - 1) >> \o Split(SubSeq(s, i + 1, Len(s)))

\* nsBrokerName of ServeHTTP
NsBrokerName(uri) == Split(TrimSuffix(uri))

\* the locals of ServeHTTP at position p
ServeAt(p) ==
  [pc |-> p, ttl |-> NoTTL, channelAddress |-> NilAddress, err |-> FALSE,
   statusCode |-> 0, dispatchTime |-> noDuration, reports |-> << >>]

\* ServeHTTP is not running
NotServing == ServeAt("idle")

\* ServeHTTP returns after writer.WriteHeader(code)
WriteAndReturn(code) ==
  /\ writer' = Append(writer, code)
  /\ serve' = [serve EXCEPT !.pc = "returned"]
  /\ UNCHANGED << autoscaler, request >>

\* the server calls ServeHTTP with the request r
ServeHTTP(r) ==
  /\ serve.pc = "idle"
  /\ request = NoRequest
  /\ request' = r
  /\ serve' = ServeAt("method")
  /\ UNCHANGED << autoscaler, writer >>

\* request.Method == http.MethodOptions
ServeOptions ==
  /\ serve.pc = "method"
  /\ request.Method = MethodOptions
  /\ WriteAndReturn(StatusOK)

\* request.Method != http.MethodPost
ServeBadMethod ==
  /\ serve.pc = "method"
  /\ request.Method # MethodOptions
  /\ request.Method # MethodPost
  /\ WriteAndReturn(StatusMethodNotAllowed)

\* request.RequestURI == "/"
ServeRoot ==
  /\ serve.pc = "method"
  /\ request.Method = MethodPost
  /\ request.RequestURI = << Slash >>
  /\ WriteAndReturn(StatusNotFound)

\* len(nsBrokerName) != 3
ServeMalformedURI ==
  /\ serve.pc = "method"
  /\ request.Method = MethodPost
  /\ request.RequestURI # << Slash >>
  /\ Len(NsBrokerName(request.RequestURI)) # 3
  /\ WriteAndReturn(StatusBadRequest)

\* the method and the URI pass
ServeAccepts ==
  /\ serve.pc = "method"
  /\ request.Method = MethodPost
  /\ request.RequestURI # << Slash >>
  /\ Len(NsBrokerName(request.RequestURI)) = 3

\* binding.ToEvent fails
ServeUndecodable ==
  /\ ServeAccepts
  /\ ~request.body.decodes
  /\ WriteAndReturn(StatusBadRequest)

\* event.Validate fails
ServeInvalid ==
  /\ ServeAccepts
  /\ request.body.decodes
  /\ ~request.body.valid
  /\ WriteAndReturn(StatusBadRequest)

\* ServeHTTP calls receive; with a Defaulter (defaulted) the event goes on
\* with the TTL ttl the Defaulter leaves it with, otherwise with its own
Receive(defaulted, ttl) ==
  /\ ServeAccepts
  /\ request.body.decodes
  /\ request.body.valid
  /\ defaulted \/ ttl = request.body.ttl
  /\ serve' = [serve EXCEPT !.pc = "ttl", !.ttl = ttl]
  /\ UNCHANGED << autoscaler, request, writer >>

\* receive: broker.GetTTL fails or the TTL is not positive
ReceiveDrops ==
  /\ serve.pc = "ttl"
  /\ serve.ttl = NoTTL \/ serve.ttl <= 0
  /\ serve' = [serve EXCEPT !.pc = "report",
                            !.statusCode = StatusBadRequest,
                            !.dispatchTime = noDuration]
  /\ UNCHANGED << autoscaler, request, writer >>

\* what the broker lister may return to getBroker, and what getChannelAddress
\* finds in the broker's status
BrokerOutcomes == {"notfound", "noannotations", "nokey", "badurl", "address"}

\* receive: getChannelAddress, with the broker the lister returns
GetChannelAddress(broker) ==
  /\ serve.pc = "ttl"
  /\ serve.ttl # NoTTL
  /\ serve.ttl > 0
  /\ serve' = IF broker = "address"
              THEN [serve EXCEPT !.pc = "send", !.channelAddress = "annotated",
                                 !.err = FALSE]
              ELSE [serve EXCEPT !.pc = "guess", !.channelAddress = NilAddress,
                                 !.err = TRUE]
  /\ UNCHANGED << autoscaler, request, writer >>

\* receive: guessChannelAddress after getChannelAddress failed; when the
\* lister does not find the broker the address stays nil, the error is logged
\* and receive goes on to send
GuessChannelAddress(found) ==
  /\ serve.pc = "guess"
  /\ serve' = IF found
              THEN [serve EXCEPT !.pc = "send", !.channelAddress = "guessed",
                                 !.err = FALSE]
              ELSE [serve EXCEPT !.pc = "send", !.channelAddress = NilAddress,
                                 !.err = TRUE]
  /\ UNCHANGED << autoscaler, request, writer >>

\* receive: h.send(ctx, headers, event, *channelAddress) with a nil
\* channelAddress: the dereference panics and ServeHTTP unwinds
SendPanics ==
  /\ serve.pc = "send"
  /\ serve.channelAddress = NilAddress
  /\ serve' = [serve EXCEPT !.pc = "panicked"]
  /\ UNCHANGED << autoscaler, request, writer >>

\* how send may end: NewCloudEventRequest fails, writing the request fails,
\* the dispatch fails, or the channel answers with a status code
SendOutcomes == {"requestErr", "writeErr", "dispatchErr", "response"}
ResponseCodes == {StatusAccepted, StatusServiceUnavailable}

\* the status code send returns
SendStatus(outcome, code) ==
  IF outcome = "response" THEN code ELSE StatusInternalServerError

\* the dispatch time send returns: noDuration before the dispatch started
SendDispatchTime(outcome) ==
  IF outcome \in {"requestErr", "writeErr"} THEN noDuration ELSE 1

\* send, with an address
Send(outcome, code) ==
  /\ serve.pc = "send"
  /\ serve.channelAddress # NilAddress
  /\ serve' = [serve EXCEPT !.pc = "report",
                            !.statusCode = SendStatus(outcome, code),
                            !.dispatchTime = SendDispatchTime(outcome)]
  /\ UNCHANGED << autoscaler, request, writer >>

\* ServeHTTP after receive: the reports and writer.WriteHeader(statusCode)
Report ==
  /\ serve.pc = "report"
  /\ writer' = Append(writer, serve.statusCode)
  /\ serve' = [serve EXCEPT
       !.pc = "returned",
       !.reports = (IF serve.dispatchTime > noDuration
                    THEN << "ReportEventDispatchTime" >> ELSE << >>)
                   \o << "ReportEventCount" >>]
  /\ UNCHANGED << autoscaler, request >>

(***************************************************************************)
(* The specifications.                                                     *)
(***************************************************************************)
\* the snapshots the system specification draws from: MAXFILLUP without a
\* scheduler policy, one free slot on every pod up to MaxOrdinal, at most one
\* pending vreplica
Pool ==
  { b \in BaseSnapshots :
      /\ b.SchedulerPolicy = MAXFILLUP
      /\ b.SchedPolicy = NilPolicy
      /\ b.LastOrdinal = MaxOrdinal
      /\ b.Pending <= 1
      /\ \A i \in DOMAIN b.FreeCap : b.FreeCap[i] = 1 }

\* the state after newAutoscaler, before Start
Init ==
  /\ isLeader = FALSE
  /\ trigger = 0
  /\ sendq = << >>
  /\ lock = NoOne
  /\ now = 0
  /\ lastCompactAttempt = now - RefreshPeriod - Minute
  /\ ctxDone = FALSE
  /\ replicas = MaxOrdinal + 1
  /\ pc = [d \in Drivers |-> "loop"]
  /\ attemptScaleDown = [d \in Drivers |-> FALSE]
  /\ timer = [d \in Drivers |-> 0]
  /\ waitSince = [d \in Drivers |-> 0]
  /\ pass = [d \in Drivers |-> NoPass]
  /\ request = NoRequest
  /\ writer = << >>
  /\ serve = NotServing

\* the vpod lists the system specification draws from: one vpod, placed on
\* the last pod and on pod 0, or two vpods on the last pod
VPodPool ==
  { << >>, << <<MaxOrdinal>> >>, << <<0, MaxOrdinal>> >>,
    << <<MaxOrdinal>>, <<MaxOrdinal>> >> }

\* the steps of one doautoscale invocation, on a snapshot of S and the vpods of V
Doautoscale(d, S, V) ==
  \/ EnterNotLeader(d)
  \/ \E scaleErr \in BOOLEAN : EnterFails(d, scaleErr)
  \/ /\ pc[d] = "enter"
     /\ GateOpen(isLeader)
     /\ \E b \in S : \E nan \in ConversionOutcomes(b) :
          Enter(d, Snapshot(b, replicas), nan)
  \/ \E updErr \in BOOLEAN : ActUpdate(d, updErr)
  \/ /\ pc[d] = "act"
     /\ Compacts(d)
     /\ \/ ActCompact(d, << >>, TRUE, 0)
        \/ \E vpods \in V :
             \E failAt \in 0 .. Len(EvictionPlan(pass[d].state,
                                                 ScaleUpFactor(pass[d].state), vpods)) :
               ActCompact(d, vpods, FALSE, failAt)
  \/ ActNothing(d)

Next ==
  \/ \E has \in BOOLEAN : Promote(has)
  \/ \E has \in BOOLEAN : Demote(has)
  \/ Cancel
  \/ Tick
  \/ \E c \in Callers : Autoscale(c)
  \/ \E d \in Drivers : SelectDone(d)
  \/ \E d \in Drivers : SelectTrigger(d)
  \/ \E d \in Drivers : SelectWait(d)
  \/ \E d \in Drivers : Lock(d)
  \/ \E d \in Drivers : Doautoscale(d, Pool, VPodPool)
  \/ \E d \in Drivers : PollRetry(d)
  \/ \E d \in Drivers : SyncReturn(d)

Spec == Init /\ [][Next]_vars

\* one syncAutoscale call of driver 1, on every snapshot: the lock is taken
\* and doautoscale is about to be entered
InitPass ==
  /\ isLeader \in BOOLEAN
  /\ trigger = 0
  /\ sendq = << >>
  /\ lock = 1
  /\ now = 0
  /\ lastCompactAttempt = now - RefreshPeriod - Minute
  /\ ctxDone = FALSE
  /\ replicas \in 0 .. MaxReplicas
  /\ pc = [d \in Drivers |-> IF d = 1 THEN "enter" ELSE "done"]
  /\ attemptScaleDown \in [Drivers -> BOOLEAN]
  /\ \A d \in Drivers : d # 1 => ~attemptScaleDown[d]
  /\ timer = [d \in Drivers |-> 0]
  /\ waitSince = [d \in Drivers |-> 0]
  /\ pass = [d \in Drivers |-> NoPass]
  /\ request = NoRequest
  /\ writer = << >>
  /\ serve = NotServing

NextPass ==
  \/ Doautoscale(1, BaseSnapshots, VPodLists)
  \/ PollRetry(1)

SpecPass == InitPass /\ [][NextPass]_vars

\* one driver runs Start, as the scheduler does; the others never started
InitLoop ==
  /\ isLeader = FALSE
  /\ trigger = 0
  /\ sendq = << >>
  /\ lock = NoOne
  /\ now = 0
  /\ lastCompactAttempt = now - RefreshPeriod - Minute
  /\ ctxDone = FALSE
  /\ replicas = MaxOrdinal + 1
  /\ pc = [d \in Drivers |-> IF d = 1 THEN "loop" ELSE "done"]
  /\ attemptScaleDown = [d \in Drivers |-> FALSE]
  /\ timer = [d \in Drivers |-> 0]
  /\ waitSince = [d \in Drivers |-> 0]
  /\ pass = [d \in Drivers |-> NoPass]
  /\ request = NoRequest
  /\ writer = << >>
  /\ serve = NotServing

\* the goroutine of Start is scheduled fairly: it evaluates its select, takes
\* the free mutex and goes through doautoscale; the poll of syncAutoscale
\* ends (after 5 s at the latest), however often doautoscale fails
SpecLoop ==
  /\ InitLoop
  /\ [][Next]_vars
  /\ \A d \in Drivers :
       /\ WF_vars(SelectDone(d) \/ SelectTrigger(d) \/ SelectWait(d))
       /\ WF_vars(Lock(d))
       /\ WF_vars(Doautoscale(d, Pool, VPodPool))
       /\ SF_vars(SyncReturn(d))

\* the ingress handler serving one request, whatever the method, the URI,
\* the body, the Defaulter, the broker lister and the channel do
NextIngress ==
  \/ \E r \in Requests : ServeHTTP(r)
  \/ ServeOptions
  \/ ServeBadMethod
  \/ ServeRoot
  \/ ServeMalformedURI
  \/ ServeUndecodable
  \/ ServeInvalid
  \/ \E defaulted \in BOOLEAN, ttl \in TTLs : Receive(defaulted, ttl)
  \/ ReceiveDrops
  \/ \E broker \in BrokerOutcomes : GetChannelAddress(broker)
  \/ \E found \in BOOLEAN : GuessChannelAddress(found)
  \/ SendPanics
  \/ \E outcome \in SendOutcomes, code \in ResponseCodes : Send(outcome, code)
  \/ Report

SpecIngress == Init /\ [][NextIngress]_vars

(***************************************************************************)
(* Properties.                                                             *)
(***************************************************************************)
\* doautoscale of driver d has returned
Returned(d) == pc[d] = "returned"

\* doautoscale of driver d has returned after its sizing
Sized(d) == pc[d] = "returned" /\ pass[d].acted

\* C1 (leader gate): a doautoscale invocation entered while the leader flag
\* was false returns nil and has called neither the state accessor, GetScale,
\* UpdateScale, the vpod lister nor the evictor; it never reaches the sizing.
C1_LeaderGate ==
  \A d \in Drivers :
    /\ pc[d] = "act" => pass[d].leader
    /\ (Returned(d) /\ ~pass[d].leader) =>
         /\ pass[d].calls = {}
         /\ ~pass[d].err
         /\ pass[d].wrote = NoWrite
         /\ pass[d].evicted = << >>
         /\ ~pass[d].compacted

\* a doautoscale invocation has returned that was entered while not leader
C1_Witness == \E d \in Drivers : Returned(d) /\ ~pass[d].leader

\* C2 (no unprovoked shrink): on a trigger wake the final newreplicas is at
\* least the replica count GetScale returned, and UpdateScale is never called
\* with less; a write below the current count happens only on a timer wake.
C2_NoUnprovokedShrink ==
  \A d \in Drivers :
    Sized(d) =>
      /\ ~attemptScaleDown[d] =>
           /\ pass[d].newreplicas >= pass[d].scale
           /\ pass[d].wrote # NoWrite => pass[d].wrote >= pass[d].scale
      /\ (pass[d].wrote # NoWrite /\ pass[d].wrote < pass[d].scale) => attemptScaleDown[d]

\* a trigger wake whose sizing result was below the current count: the gate
\* kept the count and nothing was written
C2_Witness ==
  \E d \in Drivers :
    /\ Sized(d)
    /\ ~attemptScaleDown[d]
    /\ IdealReplicas(pass[d].state, pass[d].nan) < pass[d].scale
    /\ pass[d].newreplicas = pass[d].scale
    /\ pass[d].wrote = NoWrite

\* C3 (Autoscale never blocks): no caller of Autoscale is ever parked in its
\* send; a post that finds the slot full is dropped.
C3_AutoscaleNeverBlocks == sendq = << >>

\* C4 (trigger coalescing): the posts made before a trigger wake cause that
\* one wake only: once a driver has woken on the trigger, no post is left,
\* neither in the slot nor with a parked caller.
C4_TriggerCoalescing ==
  [][ (\E d \in Drivers : pc[d] \in {"loop", "select"} /\ pc'[d] = "lock"
                          /\ ~attemptScaleDown'[d])
        => (trigger' = 0 /\ sendq' = << >>) ]_vars

\* C5 (serialisation): a driver inside doautoscale, or between two polls of
\* it, holds the mutex of syncAutoscale; so no two invocations overlap and
\* every state read, write, eviction and use of lastCompactAttempt is made
\* by the holder of the mutex.
C5_Serialised ==
  /\ \A d \in Drivers : pc[d] \in {"enter", "act", "returned"} => lock = d
  /\ \A d \in Drivers : pass[d] # NoPass => lock = d

\* one driver is inside doautoscale while another waits for the mutex
C5_Witness ==
  \E d \in Drivers, e \in Drivers : d # e /\ pc[d] = "act" /\ pc[e] = "lock"

\* C6 (monotone cover): under POLICY_BASED the final newreplicas of a leader
\* pass is at least LastOrdinal + 1.
C6_MonotoneCover ==
  \A d \in Drivers :
    (Sized(d) /\ pass[d].state.SchedulerPolicy = POLICY_BASED) =>
      pass[d].newreplicas >= pass[d].state.LastOrdinal + 1

\* the HA unit of a pass: newreplicas exceeds LastOrdinal + 1 by a multiple
\* of the scaleUpFactor
HAUnit(d) ==
  LET over == pass[d].newreplicas - (pass[d].state.LastOrdinal + 1)
  IN  over >= 0 /\ over % ScaleUpFactor(pass[d].state) = 0

\* the passes the HA unit is claimed for: POLICY_BASED, scaleUpFactor > 1,
\* pending vreplicas
HACase(d) ==
  /\ Sized(d)
  /\ pass[d].state.SchedulerPolicy = POLICY_BASED
  /\ ScaleUpFactor(pass[d].state) > 1
  /\ TotalPending(pass[d].state) > 0

\* C7 as stated (HA unit): in every such pass, for every current replica
\* count and both wake sources, the final newreplicas keeps the HA unit.
C7_HAUnitOfEveryPass == \A d \in Drivers : HACase(d) => HAUnit(d)

\* C7 as amended: the final newreplicas keeps the HA unit on a timer wake,
\* and on a trigger wake whenever the sizing result is not below the current
\* replica count (else the gate keeps the current count, whatever it is).
C7_HAUnitUnlessGated ==
  \A d \in Drivers :
    (HACase(d) /\ (attemptScaleDown[d] \/ IdealReplicas(pass[d].state, pass[d].nan) >= pass[d].scale))
      => HAUnit(d)

\* a trigger wake that grows a POLICY_BASED fleet by one HA unit of more
\* than one pod
C7_Witness ==
  \E d \in Drivers :
    /\ HACase(d)
    /\ ~attemptScaleDown[d]
    /\ pass[d].wrote = pass[d].state.LastOrdinal + 1 + ScaleUpFactor(pass[d].state)
    /\ pass[d].wrote > pass[d].scale

\* C8 (tail-only eviction): every evictor call is for a placement on one of
\* the pods LastOrdinal - j, 0 <= j < scaleUpFactor, and under MAXFILLUP on
\* the pod LastOrdinal itself.
C8_TailOnlyEviction ==
  \A d \in Drivers :
    Returned(d) =>
      \A i \in DOMAIN pass[d].evicted :
        LET o == pass[d].evicted[i].ordinal
            s == pass[d].state
        IN  /\ \E j \in 0 .. (ScaleUpFactor(s) - 1) : o = s.LastOrdinal - j
            /\ s.SchedulerPolicy = MAXFILLUP => o = s.LastOrdinal

\* the eviction window of the claim: the last pod under MAXFILLUP, the top
\* scaleUpFactor pods, from ordinal 0 up, under POLICY_BASED
EvictionWindow(s) ==
  IF s.SchedulerPolicy = MAXFILLUP THEN {s.LastOrdinal}
  ELSE { o \in 0 .. s.LastOrdinal : o > s.LastOrdinal - ScaleUpFactor(s) }

RECURSIVE UsedIn(_, _)
UsedIn(s, pods) ==
  IF pods = {} THEN 0
  ELSE LET o == CHOOSE x \in pods : TRUE
       IN  (Capacity - Free(s, o)) + UsedIn(s, pods \ {o})

\* C9 (compaction feasibility): an eviction pass is started only when the
\* free capacity outside the eviction window is at least the used capacity
\* inside it.
C9_CompactionFeasible ==
  \A d \in Drivers :
    (Returned(d) /\ pass[d].compacted) =>
      LET s == pass[d].state
      IN  FreeCapacity(s) - SumFree(s, EvictionWindow(s)) >= UsedIn(s, EvictionWindow(s))

\* an eviction pass over a POLICY_BASED window of more than one pod that
\* called the evictor
C9_Witness ==
  \E d \in Drivers :
    /\ Returned(d)
    /\ pass[d].compacted
    /\ pass[d].state.SchedulerPolicy = POLICY_BASED
    /\ Cardinality(EvictionWindow(pass[d].state)) > 1
    /\ pass[d].evicted # << >>

\* C10 (grace window): a step in which mayCompact starts an eviction pass
\* comes at least refreshPeriod after the previous compaction attempt and
\* records the time; lastCompactAttempt changes in no other step.
C10_GraceWindow ==
  [][ /\ (\E d \in Drivers : pc[d] = "act" /\ pc'[d] = "returned" /\ pass'[d].compacted)
        => (now >= lastCompactAttempt + RefreshPeriod /\ lastCompactAttempt' = now)
      /\ lastCompactAttempt' # lastCompactAttempt
        => lastCompactAttempt' >= lastCompactAttempt + RefreshPeriod ]_vars

\* a scale-down wake less than refreshPeriod after a compaction attempt, on
\* a snapshot that could be compacted: mayCompact returned without evicting
C10_Witness ==
  \E d \in Drivers :
    /\ Sized(d)
    /\ attemptScaleDown[d]
    /\ pass[d].newreplicas = pass[d].scale
    /\ lastCompactAttempt >= 0
    /\ now < lastCompactAttempt + RefreshPeriod
    /\ HasHeadroom(pass[d].state, ScaleUpFactor(pass[d].state))
    /\ MaxFillupFits(pass[d].state)
    /\ ~pass[d].compacted

\* driver d's doautoscale returns in this step, having started an eviction pass
StartsEviction(d) ==
  pc[d] = "act" /\ pc'[d] = "returned" /\ pass'[d].compacted

\* C11 (a failed eviction pass consumes the grace window): an eviction pass
\* starts only when refreshPeriod has passed since the last attempt and
\* records the time whether or not it fails; when the vpod lister fails no
\* evictor call is made, when an evictor call fails it is the last one of
\* the pass, and doautoscale still returns nil, so that the poll does not
\* call it again.
C11_FailedPassConsumesGrace ==
  [][ \A d \in Drivers :
        StartsEviction(d) =>
          /\ now >= lastCompactAttempt + RefreshPeriod
          /\ lastCompactAttempt' = now
          /\ ~pass'[d].err
          /\ pass'[d].listErr => pass'[d].evicted = << >>
          /\ pass'[d].failAt > 0 => Len(pass'[d].evicted) = pass'[d].failAt ]_vars

\* an eviction pass whose first evictor call failed has returned: the attempt
\* is recorded and doautoscale reports no error
C11_Witness ==
  \E d \in Drivers :
    /\ Returned(d)
    /\ pass[d].compacted
    /\ pass[d].failAt = 1
    /\ Len(pass[d].evicted) = 1
    /\ lastCompactAttempt = now
    /\ ~pass[d].err

\* the derivation of the claim: the zone count when the zone priority is
\* present, else the node count when the node priority is, else 1
ZoneFirstFactor(s) ==
  IF s.SchedPolicy # NilPolicy /\ AvailabilityZonePriority \in s.SchedPolicy.Priorities
  THEN s.NumZones
  ELSE IF s.SchedPolicy # NilPolicy /\ AvailabilityNodePriority \in s.SchedPolicy.Priorities
       THEN s.NumNodes
       ELSE 1

\* C12 (scaleUpFactor derivation): the scaleUpFactor a pass sizes and compacts
\* with is 1 without a priority, NumZones with the zone priority and NumNodes
\* with the node priority alone; with both priorities it is NumZones.
C12_ZoneDominates ==
  \A d \in Drivers :
    Sized(d) => ScaleUpFactor(pass[d].state) = ZoneFirstFactor(pass[d].state)

\* C13 (cancellation): once ctx.Done is closed no driver wakes into
\* syncAutoscale any more: a driver that evaluates its select then returns,
\* also when the trigger holds a signal; a driver already past its wake goes on.
C13_CancelStopsLoop ==
  [][ \A d \in Drivers :
        (ctxDone /\ pc'[d] = "lock") => pc[d] = "lock" ]_vars

\* C14 (one kind of actuation): a leader pass calls UpdateScale exactly when
\* its final newreplicas differs from the count GetScale returned; it starts
\* an eviction pass only with the count unchanged and on a timer wake; it
\* never both writes the count and evicts, and on a trigger wake it never
\* evicts.
C14_OneActuation ==
  \A d \in Drivers :
    Sized(d) =>
      /\ ("UpdateScale" \in pass[d].calls) <=> (pass[d].newreplicas # pass[d].scale)
      /\ ("UpdateScale" \in pass[d].calls) <=> (pass[d].wrote = pass[d].newreplicas)
      /\ pass[d].compacted => (pass[d].newreplicas = pass[d].scale /\ attemptScaleDown[d])
      /\ ~("UpdateScale" \in pass[d].calls
             /\ (pass[d].compacted \/ pass[d].evicted # << >>))
      /\ ~attemptScaleDown[d] => (~pass[d].compacted /\ pass[d].evicted = << >>)

\* a timer wake that left the count as it was and evicted a placement
C14_Witness ==
  \E d \in Drivers :
    /\ Sized(d)
    /\ attemptScaleDown[d]
    /\ pass[d].evicted # << >>
    /\ "UpdateScale" \notin pass[d].calls
    /\ pass[d].newreplicas = pass[d].scale

\* the snapshots on which the claim lets no compaction start
TooFewPods(s) ==
  \/ s.LastOrdinal < 1
  \/ Cardinality(s.SchedulablePods) <= ScaleUpFactor(s)
  \/ /\ s.SchedulerPolicy = POLICY_BASED
     /\ s.Replicas - ScaleUpFactor(s) < ScaleUpFactor(s)

\* C15 (compactor preconditions): a pass whose snapshot has LastOrdinal < 1
\* or no more schedulable pods than the scaleUpFactor, or under POLICY_BASED
\* fewer than two scaleUpFactors of replicas, leaves lastCompactAttempt as it
\* was and calls neither the vpod lister nor the evictor.
C15_CompactorPreconditions ==
  [][ \A d \in Drivers :
        (pc[d] = "act" /\ TooFewPods(pass[d].state)) =>
          /\ lastCompactAttempt' = lastCompactAttempt
          /\ pc'[d] = "returned" =>
               /\ pass'[d].evicted = << >>
               /\ ~pass'[d].compacted
               /\ "VPodLister" \notin pass'[d].calls ]_vars

\* a timer wake with the count unchanged and the grace period over, on a
\* POLICY_BASED fleet with pods to spare and room for the window's
\* vreplicas, but fewer than two scaleUpFactors of replicas: nothing evicted
C15_Witness ==
  \E d \in Drivers :
    /\ Sized(d)
    /\ attemptScaleDown[d]
    /\ pass[d].newreplicas = pass[d].scale
    /\ now >= lastCompactAttempt + RefreshPeriod
    /\ pass[d].state.SchedulerPolicy = POLICY_BASED
    /\ pass[d].state.SchedPolicy # NilPolicy
    /\ pass[d].state.LastOrdinal >= 1
    /\ Cardinality(pass[d].state.SchedulablePods) > ScaleUpFactor(pass[d].state)
    /\ pass[d].state.Replicas - ScaleUpFactor(pass[d].state) < ScaleUpFactor(pass[d].state)
    /\ FreeCapacity(pass[d].state) - SumFree(pass[d].state, EvictionWindow(pass[d].state))
         >= UsedIn(pass[d].state, EvictionWindow(pass[d].state))
    /\ ~pass[d].compacted

\* driver d's doautoscale returns in this step from a scale-down wake that
\* left the count as it was, on a POLICY_BASED snapshot the claim calls
\* eligible: grace period over, LastOrdinal >= 1, more schedulable pods than
\* the scaleUpFactor, room outside the window for what the window holds, and
\* two scaleUpFactors of replicas
EligiblePolicyPass(d) ==
  /\ pc[d] = "act"
  /\ pc'[d] = "returned"
  /\ attemptScaleDown[d]
  /\ pass'[d].newreplicas = pass[d].scale
  /\ now >= lastCompactAttempt + RefreshPeriod
  /\ LET s == pass[d].state
         f == ScaleUpFactor(s)
     IN  /\ s.SchedulerPolicy = POLICY_BASED
         /\ s.LastOrdinal >= 1
         /\ Cardinality(s.SchedulablePods) > f
         /\ FreeCapacity(s) - SumFree(s, EvictionWindow(s)) >= UsedIn(s, EvictionWindow(s))
         /\ s.Replicas - f >= f

\* driver d's doautoscale has recorded the attempt and run compact
RanEvictionPass(d) ==
  /\ pass'[d].compacted
  /\ lastCompactAttempt' = now
  /\ "VPodLister" \in pass'[d].calls

\* C16 as stated (eligible POLICY_BASED compaction proceeds): every eligible
\* pass records lastCompactAttempt = now and runs the eviction pass, with the
\* optional SchedPolicy present or absent.
C16_EligibleProceeds ==
  [][ \A d \in Drivers : EligiblePolicyPass(d) => RanEvictionPass(d) ]_vars

\* C16 as amended: every eligible pass whose snapshot has a SchedPolicy
\* records lastCompactAttempt = now and runs the eviction pass.
C16_EligibleWithPolicyProceeds ==
  [][ \A d \in Drivers :
        (EligiblePolicyPass(d) /\ pass[d].state.SchedPolicy # NilPolicy)
          => RanEvictionPass(d) ]_vars

\* an eviction pass on a POLICY_BASED snapshot with a SchedPolicy, started
\* with exactly as much room outside the window as the window holds
C16_Witness ==
  \E d \in Drivers :
    /\ Returned(d)
    /\ pass[d].compacted
    /\ lastCompactAttempt = now
    /\ pass[d].state.SchedulerPolicy = POLICY_BASED
    /\ pass[d].state.SchedPolicy # NilPolicy
    /\ FreeCapacity(pass[d].state) - SumFree(pass[d].state, EvictionWindow(pass[d].state))
         = UsedIn(pass[d].state, EvictionWindow(pass[d].state))
    /\ UsedIn(pass[d].state, EvictionWindow(pass[d].state)) > 0

\* perPod as the claim gives it: the smallest strictly positive element of
\* FreeCap under the EvenPodSpread predicate, Capacity otherwise
PerPod(s) ==
  LET positive == { s.FreeCap[i] : i \in DOMAIN s.FreeCap } \ {0}
  IN  IF /\ s.SchedPolicy # NilPolicy
         /\ EvenPodSpread \in s.SchedPolicy.Predicates
         /\ s.FreeCap # << >>
         /\ positive # {}
      THEN CHOOSE v \in positive : \A w \in positive : v <= w
      ELSE Capacity

\* the least number of pods of size k that hold n
PodsFor(n, k) == CHOOSE q \in 0 .. n : q * k >= n /\ (q = 0 \/ (q - 1) * k < n)

\* the claim's closed form for newReplicas before the gate
PolicySizing(s) ==
  IF TotalPending(s) > 0
  THEN (s.LastOrdinal + 1)
         + PodsFor(PodsFor(TotalPending(s), PerPod(s)), ScaleUpFactor(s)) * ScaleUpFactor(s)
  ELSE s.LastOrdinal + 1

\* C17 (POLICY_BASED sizing arithmetic): with a scaleUpFactor >= 1 a timer
\* pass ends with exactly the closed form, and a trigger pass with the larger
\* of the closed form and the current count.
C17_PolicySizing ==
  \A d \in Drivers :
    (/\ Sized(d)
     /\ pass[d].state.SchedulerPolicy = POLICY_BASED
     /\ ScaleUpFactor(pass[d].state) >= 1)
      => LET x == PolicySizing(pass[d].state)
         IN  pass[d].newreplicas =
               IF attemptScaleDown[d] \/ x >= pass[d].scale THEN x ELSE pass[d].scale

\* a timer pass sized for pending vreplicas with the smallest free slot
\* below Capacity and a scaleUpFactor above 1 that does not divide the pods
C17_Witness ==
  \E d \in Drivers :
    /\ Sized(d)
    /\ attemptScaleDown[d]
    /\ pass[d].state.SchedulerPolicy = POLICY_BASED
    /\ TotalPending(pass[d].state) > 0
    /\ PerPod(pass[d].state) < Capacity
    /\ ScaleUpFactor(pass[d].state) > 1
    /\ PodsFor(TotalPending(pass[d].state), PerPod(pass[d].state)) % ScaleUpFactor(pass[d].state) # 0
    /\ pass[d].newreplicas = PolicySizing(pass[d].state)

\* a signal is stored in the trigger slot and the context is not cancelled
TriggerStored == trigger > 0 /\ ~ctxDone

\* driver d has been woken by the trigger and is about to run its pass
TriggerWoken(d) == pc[d] = "lock" /\ ~attemptScaleDown[d]

\* C18 (a stored trigger is never lost): no driver waits with a signal in the
\* slot; a driver that evaluates its select with a signal stored and no
\* cancellation takes the trigger case, consuming the signal, with
\* attemptScaleDown = false; and under fair scheduling of the loop a stored
\* signal leads to a trigger wake unless the context is cancelled.
C18_StoredTriggerWakes ==
  /\ [][ \A d \in Drivers :
           /\ (pc'[d] = "select") => (trigger' = 0)
           /\ (pc[d] = "loop" /\ TriggerStored /\ pc'[d] # pc[d])
                => /\ pc'[d] = "lock"
                   /\ ~attemptScaleDown'[d]
                   /\ \/ trigger' = trigger - 1
                      \/ sendq # << >> /\ sendq' = Tail(sendq) ]_vars
  /\ (TriggerStored /\ \A d \in Drivers : ~TriggerWoken(d))
       ~> (ctxDone \/ \E d \in Drivers : TriggerWoken(d))

\* a trigger wake after an earlier pass of the loop has compacted, with the
\* context not cancelled
C18_Witness ==
  \E d \in Drivers :
    /\ TriggerWoken(d)
    /\ ~ctxDone
    /\ lastCompactAttempt >= 0

\* driver d is woken by its timer in this step
TimerWake(d) == pc[d] # "lock" /\ pc'[d] = "lock" /\ attemptScaleDown'[d]

\* C19 (the refresh timer restarts at every wake): a driver woken by the timer
\* has waited in its select, entered after its previous pass, for a full
\* refreshPeriod; and while a driver of the loop keeps waiting no signal is
\* posted, since a post wakes it with attemptScaleDown = false.  So posts less
\* than refreshPeriod apart leave no room for a scale-down pass.
C19_TimerRestarts ==
  [][ \A d \in Drivers :
        /\ TimerWake(d) => /\ pc[d] = "select"
                           /\ now' >= waitSince[d] + RefreshPeriod
        /\ (pc[d] = "select" /\ pc'[d] = "select")
             => (trigger' = trigger /\ sendq' = sendq) ]_vars

\* a second timer wake of the loop, a refreshPeriod after a pass that compacted
C19_Witness ==
  \E d \in Drivers :
    /\ pc[d] = "lock"
    /\ attemptScaleDown[d]
    /\ lastCompactAttempt >= 0
    /\ now >= lastCompactAttempt + RefreshPeriod

\* doautoscale of driver d has returned after calling UpdateScale
Wrote(d) == Sized(d) /\ pass[d].wrote # NoWrite

ServeEnded == serve.pc \in {"returned", "panicked"}

\* the request is a POST to /<namespace>/<broker> whose event is valid and
\* reached the TTL check of receive with a TTL above 0
ValidPost ==
  /\ request.Method = MethodPost
  /\ LET nsBrokerName == NsBrokerName(request.RequestURI)
     IN  /\ Len(nsBrokerName) = 3
         /\ nsBrokerName[1] = << >>
         /\ nsBrokerName[2] # << >>
         /\ nsBrokerName[3] # << >>
  /\ request.body.decodes
  /\ request.body.valid
  /\ serve.ttl > 0

\* C21 (ingress handler): for every POST to /<namespace>/<broker> with a
\* valid event and a TTL above 0, ServeHTTP ends by returning with exactly one
\* status code written, whatever the broker lister returns.
C21_OneStatusCode ==
  (ServeEnded /\ ValidPost) => (serve.pc = "returned" /\ Len(writer) = 1)

=============================================================================
